---- MODULE Spec2Model ----
(***************************************************************************)
(* A model of src/TCA/TCA.py: the TCA class (construction, the condensed   *)
(* Hamming distance matrix, Ward linkage, the cut of the merge tree into   *)
(* K clusters, the per-cluster percentage plots) and the driver main().    *)
(*                                                                         *)
(* The library calls the methods make (pdist, linkage, cut_tree,           *)
(* plt.subplots, DataFrame selection) are modelled by what they compute,   *)
(* with the arguments the program passes: the defaults metric='hamming',   *)
(* method='ward', optimal_ordering=True.                                   *)
(*                                                                         *)
(* Leaves, rows and cluster ids are 0-based as in the program; TLA+        *)
(* sequences are 1-based, so row i of the program is element i+1.          *)
(* Real numbers are exact rationals <<numerator, denominator>>; the merge  *)
(* tree records the SQUARE of each merge distance (Ward's update is        *)
(* rational in the squares, and d <= e iff d^2 <= e^2 for d, e >= 0).      *)
(***************************************************************************)
EXTENDS Integers, Sequences, FiniteSets, TLC

VARIABLES pc, heap, self, distance_matrix, linkage_matrix, num_clusters, clusters,
          figure, error

vars == <<pc, heap, self, distance_matrix, linkage_matrix, num_clusters, clusters,
          figure, error>>

(* Largest number of rows (subjects) of the sequence matrix. *)
MaxN == 4

(* Largest number of states of a state mapping handed to the constructor. *)
MaxStates == 7

(* The time columns of the sequence matrix (a bound: a session's frame has *)
(* the first one or the first two of them).                                *)
TimeColumns == <<"m1", "m2">>

None == "None"

(* No figure has been drawn. *)
NoFigure == [kind |-> "none"]

-----------------------------------------------------------------------------
(* Small helpers. *)

Range(s) == {s[i] : i \in 1..Len(s)}

Min2(a, b) == IF a <= b THEN a ELSE b

SetMin(S) == CHOOSE x \in S : \A y \in S : x <= y

SetMax(S) == CHOOSE x \in S : \A y \in S : y <= x

RECURSIVE Factorial(_)
Factorial(n) == IF n <= 1 THEN 1 ELSE n * Factorial(n - 1)

(* a/b <= c/d and a/b < c/d for rationals with positive denominators. *)
RatLeq(a, b) == a[1] * b[2] <= b[1] * a[2]

RatLess(a, b) == a[1] * b[2] < b[1] * a[2]

-----------------------------------------------------------------------------
(* main(): the state mapping and the colors of the driver, and the numeric *)
(* data frame it builds.                                                   *)

(* The labels and codes of main's state_mapping, in insertion order,       *)
(* continued by two more states so that mappings of up to MaxStates + 1    *)
(* states can be built.                                                    *)
MappingLabels == <<"EM", "FE", "HE", "JL", "SC", "TR", "S7", "S8">>

MappingCodes == <<2, 4, 6, 8, 10, 12, 14, 16>>

MainColors == <<"blue", "orange", "green", "red", "yellow", "gray", "c7", "c8">>

(* A state mapping (a dict, in insertion order) with the first n states. *)
StateMapping(n) == [i \in 1..n |-> [key |-> MappingLabels[i], value |-> MappingCodes[i]]]

(* The first n colors. *)
Colors(n) == [i \in 1..n |-> MainColors[i]]

(* The default of the colors argument: the string 'viridis', whose len()   *)
(* is its number of characters.                                            *)
DefaultColors == <<"v", "i", "r", "i", "d", "i", "s">>

(* The mapping and colors of an analysis session: two states. *)
SessionStates == Min2(2, Len(MappingLabels))

(* The codes a cell of the numeric data frame holds. *)
Codes == {MappingCodes[i] : i \in 1..SessionStates}

(* Data frames of n rows (RangeIndex 0..n-1) over the given columns. *)
DataFrames(columns, n) == [columns : {columns},
                           rows : [1..n -> [1..Len(columns) -> Codes]]]

(* The frames of a session: 1..MaxN rows over the first t time columns. *)
SessionFrames ==
    UNION {DataFrames(SubSeq(TimeColumns, 1, t), n) :
              t \in 1..Len(TimeColumns), n \in 1..MaxN}

(* The frames used where the constructor's arguments vary: two rows. *)
ConfigFrames == DataFrames(TimeColumns, Min2(2, MaxN))

(* The colors arguments: the default, or a list of 0..MaxStates colors. *)
ColorChoices == {DefaultColors} \cup {Colors(n) : n \in 0..MaxStates}

(* The one data frame object main creates; tca.data is a reference to it. *)
DfRef == "df_numeriques"

(* The frame self.data refers to. *)
Data == heap[self.data]

-----------------------------------------------------------------------------
(* main, lines 352-356: df = pd.read_csv(...); df_numeriques = df.replace(...) *)

LoadData(df) ==
    /\ pc = "start"
    /\ heap' = (DfRef :> df)
    /\ pc' = "loaded"
    /\ UNCHANGED <<self, distance_matrix, linkage_matrix, num_clusters, clusters, figure,
                   error>>

(* Construct without the check of the number of colors. *)
Construct_unchecked(ref, state_mapping, colors) ==
    /\ pc = "loaded"
    /\ error' = None
    /\ pc' = "constructed"
    /\ self' = [data |-> ref,
                state_label |-> [i \in 1..Len(state_mapping) |-> state_mapping[i].key],
                state_numeric |-> [i \in 1..Len(state_mapping) |-> state_mapping[i].value],
                colors |-> colors]
    /\ UNCHANGED <<heap, distance_matrix, linkage_matrix, num_clusters, clusters, figure>>

(* TCA.__init__(data, state_mapping, colors): self.data is the caller's    *)
(* object (no copy); the labels and codes are the dict's keys and values;  *)
(* the only check compares len(colors) with the number of labels.          *)
Construct(ref, state_mapping, colors) ==
    /\ pc = "loaded"
    /\ LET obj == [data |-> ref,
                   state_label |-> [i \in 1..Len(state_mapping) |-> state_mapping[i].key],
                   state_numeric |-> [i \in 1..Len(state_mapping) |-> state_mapping[i].value],
                   colors |-> colors]
       IN IF Len(obj.colors) # Len(obj.state_label)
          THEN /\ error' = "ValueError"
               /\ pc' = "construct_failed"
               /\ self' = None
          ELSE /\ error' = None
               /\ pc' = "constructed"
               /\ self' = obj
    /\ UNCHANGED <<heap, distance_matrix, linkage_matrix, num_clusters, clusters, figure>>

-----------------------------------------------------------------------------
(* scipy.spatial.distance.pdist(X, 'hamming'), called by                   *)
(* calculate_distance_matrix: for i < j in row-major order, the fraction   *)
(* of positions where rows i and j differ.                                 *)

(* The number of positions t..Len(u) where u and v differ. *)
RECURSIVE NeCount(_, _, _)
NeCount(u, v, t) ==
    IF t > Len(u) THEN 0
    ELSE (IF u[t] # v[t] THEN 1 ELSE 0) + NeCount(u, v, t + 1)

(* hamming without the division by the length. *)
hamming_unnormalised(u, v) == <<NeCount(u, v, 1), 1>>

hamming(u, v) == <<NeCount(u, v, 1), Len(u)>>

(* The entries for the pairs (i, j), (i, j+1), ..., then row i+1, ... *)
RECURSIVE PdistFrom(_, _, _)
PdistFrom(X, i, j) ==
    IF i >= Len(X) - 1 THEN <<>>
    ELSE IF j >= Len(X) THEN PdistFrom(X, i + 1, i + 2)
    ELSE <<hamming(X[i + 1], X[j + 1])>> \o PdistFrom(X, i, j + 1)

pdist(X) == PdistFrom(X, 0, 1)

CalculateDistanceMatrix ==
    /\ pc = "constructed"
    /\ distance_matrix' = pdist(Data.rows)
    /\ pc' = "distanced"
    /\ UNCHANGED <<heap, self, linkage_matrix, num_clusters, clusters, figure, error>>

-----------------------------------------------------------------------------
(* scipy.cluster.hierarchy.linkage(y, method='ward', optimal_ordering=True),*)
(* called by cluster: the nearest-neighbour chain algorithm with Ward's    *)
(* Lance-Williams update, a stable sort of the merges by distance, the     *)
(* relabelling of the clusters (union-find), and the optimal leaf order.   *)

(* The index in a condensed matrix of the pair {i, j} of n observations. *)
condensed_index(n, i, j) ==
    IF i < j THEN n * i - ((i * (i + 1)) \div 2) + (j - i - 1)
    ELSE n * j - ((j * (j + 1)) \div 2) + (i - j - 1)

(* The number of observations of a condensed matrix of length k. *)
num_obs_y(y) == CHOOSE n \in 1..(Len(y) + 1) : (n * (n - 1)) \div 2 = Len(y)

(* Squared distances are held as integers in units of 1/(den^2 * WardScale):*)
(* den is the common denominator of y, and WardScale(n) = 3 * 4 * ... * n  *)
(* clears the divisors (size_x + size_y + size_i) <= n of Ward's updates.  *)
WardScale(n) == IF n <= 2 THEN 1 ELSE Factorial(n) \div 2

UnitDen(y) == y[1][2]

(* NPY_INFINITYF *)
Infinity == -1

DistLess(a, b) == b = Infinity \/ a < b

(* _ward on squares: t = 1/(size_x+size_y+size_i);                         *)
(* (size_i+size_x)*t*d_xi^2 + (size_i+size_y)*t*d_yi^2 - size_i*t*d_xy^2   *)
ward(d_xi, d_yi, d_xy, size_x, size_y, size_i) ==
    ((size_i + size_x) * d_xi + (size_i + size_y) * d_yi - size_i * d_xy)
        \div (size_x + size_y + size_i)

(* for i in range(n): skip dropped clusters and x; keep the first strictly *)
(* smaller distance.  Returns <<current_min, y>>.                          *)
RECURSIVE ScanNearest(_, _, _, _, _, _, _)
ScanNearest(D, size, n, x, i, current_min, y) ==
    IF i >= n THEN <<current_min, y>>
    ELSE IF size[i] = 0 \/ x = i THEN ScanNearest(D, size, n, x, i + 1, current_min, y)
    ELSE LET dist == D[condensed_index(n, x, i)]
         IN IF DistLess(dist, current_min)
            THEN ScanNearest(D, size, n, x, i + 1, dist, i)
            ELSE ScanNearest(D, size, n, x, i + 1, current_min, y)

(* Go through the chain of neighbours until two mutual neighbours are      *)
(* found; the previous element of the chain is preferred as the minimum.   *)
(* Returns [chain, x, y, current_min].                                     *)
RECURSIVE GrowChain(_, _, _, _)
GrowChain(D, size, n, chain) ==
    LET chain_length == Len(chain)
        x == chain[chain_length]
        y0 == IF chain_length > 1 THEN chain[chain_length - 1] ELSE -1
        min0 == IF chain_length > 1 THEN D[condensed_index(n, x, y0)] ELSE Infinity
        found == ScanNearest(D, size, n, x, 0, min0, y0)
    IN IF chain_length > 1 /\ found[2] = chain[chain_length - 1]
       THEN [chain |-> chain, x |-> x, y |-> found[2], current_min |-> found[1]]
       ELSE GrowChain(D, size, n, Append(chain, found[2]))

(* The n-1-k remaining merges of nn_chain, from merge k on. *)
RECURSIVE NNChainFrom(_, _, _, _, _, _)
NNChainFrom(k, n, D, size, chain, Z) ==
    IF k >= n - 1 THEN Z
    ELSE
    LET start == IF Len(chain) = 0
                 THEN <<SetMin({i \in 0..(n - 1) : size[i] > 0})>>
                 ELSE chain
        g == GrowChain(D, size, n, start)
        rest == SubSeq(g.chain, 1, Len(g.chain) - 2)
        x == IF g.x > g.y THEN g.y ELSE g.x
        y == IF g.x > g.y THEN g.x ELSE g.y
        nx == size[x]
        ny == size[y]
        size2 == [size EXCEPT ![x] = 0, ![y] = nx + ny]
        updated == {i \in 0..(n - 1) : size2[i] # 0 /\ i # y}
        D2 == [c \in DOMAIN D |->
                 IF \E i \in updated : c = condensed_index(n, i, y)
                 THEN LET i == CHOOSE i \in updated : c = condensed_index(n, i, y)
                      IN ward(D[condensed_index(n, i, x)], D[condensed_index(n, i, y)],
                              g.current_min, nx, ny, size2[i])
                 ELSE D[c]]
    IN NNChainFrom(k + 1, n, D2, size2, rest,
                   Append(Z, [left |-> x, right |-> y, dist |-> g.current_min,
                              size |-> nx + ny]))

(* SortByDist left out: the merges stay in the order the chain found them. *)
SortByDist_none(Z) == Z

(* np.argsort(Z[:, 2], kind='mergesort'): a stable sort by distance. *)
RECURSIVE SortByDist(_)
SortByDist(Z) ==
    IF Len(Z) <= 1 THEN Z
    ELSE LET init == SortByDist(SubSeq(Z, 1, Len(Z) - 1))
             last == Z[Len(Z)]
             keep == Cardinality({m \in 1..Len(init) : init[m].dist <= last.dist})
         IN SubSeq(init, 1, keep) \o <<last>> \o SubSeq(init, keep + 1, Len(init))

(* LinkageUnionFind.find: the root of x under the parent links. *)
RECURSIVE find(_, _)
find(parent, x) == IF parent[x] = -1 THEN x ELSE find(parent, parent[x])

(* label(Z, n): rows i.. of Z get the roots of their two clusters, the     *)
(* smaller first, and the size of the union; the union is cluster n + i.   *)
RECURSIVE LabelFrom(_, _, _, _, _)
LabelFrom(Z, n, i, parent, size) ==
    IF i >= n - 1 THEN Z
    ELSE LET x_root == find(parent, Z[i + 1].left)
             y_root == find(parent, Z[i + 1].right)
             next_label == n + i
             merged == size[x_root] + size[y_root]
             row == [left |-> IF x_root < y_root THEN x_root ELSE y_root,
                     right |-> IF x_root < y_root THEN y_root ELSE x_root,
                     dist |-> Z[i + 1].dist,
                     size |-> merged]
         IN LabelFrom([Z EXCEPT ![i + 1] = row], n, i + 1,
                      [parent EXCEPT ![x_root] = next_label, ![y_root] = next_label],
                      [size EXCEPT ![next_label] = merged])

(* label left out: the rows keep the indices nn_chain worked with. *)
label_none(Z, n) == Z

label(Z, n) ==
    LabelFrom(Z, n, 0, [c \in 0..(2 * n - 2) |-> -1],
              [c \in 0..(2 * n - 2) |-> IF c < n THEN 1 ELSE 0])

(* The merges in the order nn_chain finds them. *)
ChainMerges(y, n) ==
    NNChainFrom(0, n,
                [c \in 0..(Len(y) - 1) |-> y[c + 1][1] * y[c + 1][1] * WardScale(n)],
                [i \in 0..(n - 1) |-> 1], <<>>, <<>>)

(* nn_chain(y, n, ward): the merge tree, each distance as the rational     *)
(* square <<numerator, denominator>>.                                      *)
nn_chain(y, n) ==
    LET Z == label(SortByDist(ChainMerges(y, n)), n)
        den == UnitDen(y) * UnitDen(y) * WardScale(n)
    IN [m \in 1..Len(Z) |-> [Z[m] EXCEPT !.dist = <<Z[m].dist, den>>]]

(* The leaves under cluster id, left to right. *)
RECURSIVE LeafOrder(_, _, _)
LeafOrder(Z, n, id) ==
    IF id < n THEN <<id>>
    ELSE LeafOrder(Z, n, Z[id - n + 1].left) \o LeafOrder(Z, n, Z[id - n + 1].right)

(* The sum of the distances (numerators) between adjacent leaves. *)
RECURSIVE OrderCost(_, _, _, _)
OrderCost(order, y, n, p) ==
    IF p >= Len(order) THEN 0
    ELSE y[condensed_index(n, order[p], order[p + 1]) + 1][1] + OrderCost(order, y, n, p + 1)

(* Z with the two children of the rows in flips swapped. *)
Flipped(Z, flips) ==
    [m \in 1..Len(Z) |->
        IF m \in flips THEN [Z[m] EXCEPT !.left = Z[m].right, !.right = Z[m].left]
        ELSE Z[m]]

(* optimal_leaf_ordering(Z, y): the trees that differ from Z only by swaps *)
(* of a merge's two subtrees and whose leaf order has the least sum of     *)
(* distances between successive leaves.  Which of several equally good     *)
(* orders is returned is not determined here: each is a possible result.   *)
optimal_leaf_ordering(Z, y) ==
    LET n == Len(Z) + 1
        all == {Flipped(Z, flips) : flips \in SUBSET (1..Len(Z))}
        cost(W) == OrderCost(LeafOrder(W, n, 2 * n - 2), y, n, 1)
        least == SetMin({cost(V) : V \in all})
    IN {W \in all : cost(W) = least}

(* linkage(y, 'ward', optimal_ordering=True): the possible results. *)
linkage(y) == optimal_leaf_ordering(nn_chain(y, num_obs_y(y)), y)

(* TCA.cluster: an empty distance matrix (a single row) is refused by      *)
(* linkage with a ValueError.                                              *)
Cluster ==
    /\ pc = "distanced"
    /\ IF Len(distance_matrix) = 0
       THEN /\ error' = "ValueError"
            /\ pc' = "cluster_failed"
            /\ UNCHANGED linkage_matrix
       ELSE /\ \E Z \in linkage(distance_matrix) : linkage_matrix' = Z
            /\ pc' = "clustered"
            /\ UNCHANGED error
    /\ UNCHANGED <<heap, self, distance_matrix, num_clusters, clusters, figure>>

-----------------------------------------------------------------------------
(* scipy.cluster.hierarchy.cut_tree(Z, n_clusters), called by              *)
(* assign_clusters.                                                        *)

(* bisect.insort_left(nodes, node): ClusterNodes compare by dist; the node *)
(* goes before the first node whose dist is not smaller.                   *)
insort_left(nodes, Z, n, id) ==
    LET smaller == Cardinality({p \in 1..Len(nodes) :
                        RatLess(Z[nodes[p] - n + 1].dist, Z[id - n + 1].dist)})
    IN SubSeq(nodes, 1, smaller) \o <<id>> \o SubSeq(nodes, smaller + 1, Len(nodes))

(* _order_cluster_tree: a breadth-first walk from the root; every inner    *)
(* node is inserted into the list sorted by dist, and its right child is   *)
(* queued before its left child.                                           *)
RECURSIVE OrderFrom(_, _, _, _)
OrderFrom(Z, n, q, nodes) ==
    IF Len(q) = 0 THEN nodes
    ELSE LET node == Head(q)
         IN IF node < n THEN OrderFrom(Z, n, Tail(q), nodes)
            ELSE OrderFrom(Z, n,
                           Tail(q) \o <<Z[node - n + 1].right, Z[node - n + 1].left>>,
                           insort_left(nodes, Z, n, node))

_order_cluster_tree(Z) ==
    LET n == Len(Z) + 1 IN OrderFrom(Z, n, <<2 * n - 2>>, <<>>)

(* np.searchsorted(np.arange(nobs), v): how many of 0..nobs-1 are < v. *)
searchsorted_arange(nobs, v) == Cardinality({a \in 0..(nobs - 1) : a < v})

(* cols_idx one too small: one merge fewer than asked for. *)
cols_idx_off_by_one(nobs, n_clusters) == nobs - searchsorted_arange(nobs, n_clusters) - 1

(* The column of the cut: the number of merges applied. *)
cols_idx(nobs, n_clusters) == nobs - searchsorted_arange(nobs, n_clusters)

(* MergeGroups without moving the groups above the merged one down. *)
MergeGroups_no_shift(last_group, idx) ==
    LET lo == SetMin({last_group[l] : l \in idx})
    IN [l \in DOMAIN last_group |-> IF l \in idx THEN lo ELSE last_group[l]]

(* One turn of the loop over the ordered nodes: the leaves under the node  *)
(* get the least of their groups, and the groups above the greatest of     *)
(* them move down by one.                                                  *)
MergeGroups(last_group, idx) ==
    LET lo == SetMin({last_group[l] : l \in idx})
        hi == SetMax({last_group[l] : l \in idx})
        merged == [l \in DOMAIN last_group |-> IF l \in idx THEN lo ELSE last_group[l]]
    IN [l \in DOMAIN last_group |-> IF merged[l] > hi THEN merged[l] - 1 ELSE merged[l]]

(* The loop from node i on; groups is the row kept for the column col. *)
RECURSIVE CutFrom(_, _, _, _, _, _)
CutFrom(Z, nodes, i, col, last_group, groups) ==
    IF i >= Len(nodes) THEN groups
    ELSE LET n == Len(Z) + 1
             idx == Range(LeafOrder(Z, n, nodes[i + 1]))
             this_group == MergeGroups(last_group, idx)
         IN CutFrom(Z, nodes, i + 1, col, this_group,
                    IF i + 1 = col THEN this_group ELSE groups)

(* cut_tree(Z, n_clusters): the group (from 0) of each leaf 0..nobs-1. *)
cut_tree(Z, n_clusters) ==
    LET nobs == Len(Z) + 1
        col == cols_idx(nobs, n_clusters)
        arange == [l \in 0..(nobs - 1) |-> l]
        zeros == [l \in 0..(nobs - 1) |-> 0]
    IN CutFrom(Z, _order_cluster_tree(Z), 0, col, arange,
               IF col = 0 THEN arange ELSE zeros)

(* TCA.assign_clusters(linkage_matrix, num_clusters):                      *)
(* cut_tree(...) + 1, flattened to one label per row.                      *)
AssignClusters(k) ==
    /\ pc = "clustered"
    /\ num_clusters' = k
    /\ LET groups == cut_tree(linkage_matrix, k)
       IN clusters' = [i \in 1..(Len(linkage_matrix) + 1) |-> groups[i - 1] + 1]
    /\ pc' = "assigned"
    /\ UNCHANGED <<heap, self, distance_matrix, linkage_matrix, figure, error>>

-----------------------------------------------------------------------------
(* The per-cluster plots: the grid of axes and what is drawn in each cell. *)

(* len(np.unique(clusters)) *)
NumClusters(labels) == Cardinality(Range(labels))

(* plt.subplots(nrows, ncols) with the default squeeze: a single Axes for  *)
(* a 1 x 1 grid, a one-dimensional array for a single row or column, a     *)
(* two-dimensional array otherwise.  shape = <<>> is the single Axes.      *)
subplots(nrows, ncols) ==
    IF nrows = 1 /\ ncols = 1 THEN <<>>
    ELSE IF nrows = 1 \/ ncols = 1 THEN <<nrows * ncols>>
    ELSE <<nrows, ncols>>

(* np.array([axs]): one more leading dimension of length 1. *)
np_array_of(axs) == <<1>> \o axs

(* The axes a plot works on: plt.subplots(num_rows, num_cols), wrapped     *)
(* when num_clusters == 2.                                                 *)
GridAxes(k) ==
    LET num_rows == (k + 1) \div 2
        num_cols == Min2(2, k)
        axs == subplots(num_rows, num_cols)
    IN IF k = 2 THEN np_array_of(axs) ELSE axs

(* axs[row, col]: a single Axes is not subscriptable, an array of one      *)
(* dimension has too few, and an index must lie in the shape (a negative   *)
(* index counts from the end).  The cell <<row, col>> or the error.        *)
Item(axs, row, col) ==
    IF Len(axs) = 0 THEN [error |-> "TypeError", cell |-> <<>>]
    ELSE IF Len(axs) = 1 THEN [error |-> "IndexError", cell |-> <<>>]
    ELSE LET r == IF row < 0 THEN row + axs[1] ELSE row
             c == IF col < 0 THEN col + axs[2] ELSE col
         IN IF r \in 0..(axs[1] - 1) /\ c \in 0..(axs[2] - 1)
            THEN [error |-> None, cell |-> <<r, c>>]
            ELSE [error |-> "IndexError", cell |-> <<>>]

(* np.where(clusters == cluster_label)[0]: the rows (from 1) of the label. *)
ClusterIndices(labels, cluster_label) ==
    {i \in 1..Len(labels) : labels[i] = cluster_label}

(* The rows of a set of indices, in index order (data.iloc[indices]). *)
RECURSIVE IlocFrom(_, _, _)
IlocFrom(rows, indices, i) ==
    IF i > Len(rows) THEN <<>>
    ELSE (IF i \in indices THEN <<rows[i]>> ELSE <<>>) \o IlocFrom(rows, indices, i + 1)

iloc(rows, indices) == IlocFrom(rows, indices, 1)

(* TreatmentData without the selection: every row of the cluster. *)
TreatmentData_all(cluster_data, treatment) == cluster_data

(* cluster_data[cluster_data.eq(treatment).any(axis=1)] *)
TreatmentData(cluster_data, treatment) ==
    iloc(cluster_data,
         {i \in 1..Len(cluster_data) :
             \E t \in 1..Len(cluster_data[i]) : cluster_data[i][t] = treatment})

(* x.value_counts().get(treatment, 0) for column t. *)
RECURSIVE ValueCount(_, _, _, _)
ValueCount(rows, t, treatment, i) ==
    IF i > Len(rows) THEN 0
    ELSE (IF rows[i][t] = treatment THEN 1 ELSE 0) + ValueCount(rows, t, treatment, i + 1)

(* (treatment_data.apply(count of treatment) / len(treatment_data)) * 100, *)
(* one value per column; <<0, 0>> is 0/0, the NaN of an empty selection.   *)
Percentages(cluster_data, treatment, ncolumns) ==
    LET treatment_data == TreatmentData(cluster_data, treatment)
    IN [t \in 1..ncolumns |->
           <<100 * ValueCount(treatment_data, t, treatment, 1), Len(treatment_data)>>]

(* The series of one cluster: one per state of zip(codes, labels, colors). *)
ClusterSeries(obj, df, labels, cluster_label) ==
    LET cluster_data == iloc(df.rows, ClusterIndices(labels, cluster_label))
        nstates == Min2(Len(obj.state_numeric), Min2(Len(obj.state_label), Len(obj.colors)))
    IN [s \in 1..nstates |->
           [label |-> obj.state_label[s], color |-> obj.colors[s],
            values |-> Percentages(cluster_data, obj.state_numeric[s], Len(df.columns))]]

(* The cells drawn for the labels cluster_label.., until one fails. *)
RECURSIVE DrawFrom(_, _, _, _)
DrawFrom(axs, k, num_cols, cluster_label) ==
    IF cluster_label > k THEN [error |-> None, cells |-> <<>>]
    ELSE LET at == Item(axs, (cluster_label - 1) \div num_cols,
                        (cluster_label - 1) % num_cols)
         IN IF at.error # None THEN [error |-> at.error, cells |-> <<>>]
            ELSE LET rest == DrawFrom(axs, k, num_cols, cluster_label + 1)
                 IN [error |-> rest.error, cells |-> <<at.cell>> \o rest.cells]

(* The figure of plot_cluster_treatment_percentage,                        *)
(* bar_cluster_treatment_percentage and plot_stacked_bar: the grid, the    *)
(* cell removed when the number of clusters is odd, then one cell per      *)
(* label 1..num_clusters with the percentages of each state.  The three    *)
(* differ only in the mark (line, bar, stacked bar) that shows a value.    *)
PercentageFigure(obj, df, labels) ==
    LET k == NumClusters(labels)
        num_rows == (k + 1) \div 2
        num_cols == Min2(2, k)
        axs == GridAxes(k)
        last == IF k % 2 # 0 THEN Item(axs, -1, -1) ELSE [error |-> None, cell |-> <<>>]
        drawn == IF last.error # None THEN [error |-> last.error, cells |-> <<>>]
                 ELSE DrawFrom(axs, k, num_cols, 1)
    IN [kind |-> "percentages", num_clusters |-> k, num_rows |-> num_rows,
        num_cols |-> num_cols, axs |-> axs,
        removed |-> IF k % 2 # 0 /\ last.error = None THEN <<last.cell>> ELSE <<>>,
        cells |-> drawn.cells,
        series |-> [c \in 1..Len(drawn.cells) |-> ClusterSeries(obj, df, labels, c)],
        error |-> drawn.error]

(* Rows in lexicographic order of their columns. *)
RECURSIVE RowLeq(_, _, _)
RowLeq(u, v, t) ==
    IF t > Len(u) THEN TRUE
    ELSE IF u[t] # v[t] THEN u[t] < v[t]
    ELSE RowLeq(u, v, t + 1)

(* cluster_df.sort_values(by=all columns) *)
RECURSIVE SortRows(_)
SortRows(rows) ==
    IF Len(rows) <= 1 THEN rows
    ELSE LET init == SortRows(SubSeq(rows, 1, Len(rows) - 1))
             last == rows[Len(rows)]
             keep == Cardinality({m \in 1..Len(init) : RowLeq(init[m], last, 1)})
         IN SubSeq(init, 1, keep) \o <<last>> \o SubSeq(init, keep + 1, Len(init))

(* The figure of plot_cluster_heatmaps: one heatmap per label, drawn       *)
(* first; the last cell is removed afterwards when the number is odd.      *)
HeatmapFigure(obj, df, labels, sorted) ==
    LET k == NumClusters(labels)
        num_rows == (k + 1) \div 2
        num_cols == Min2(2, k)
        axs == GridAxes(k)
        drawn == DrawFrom(axs, k, num_cols, 1)
        last == IF drawn.error = None /\ k % 2 # 0 THEN Item(axs, -1, -1)
                ELSE [error |-> None, cell |-> <<>>]
    IN [kind |-> "heatmaps", num_clusters |-> k, num_rows |-> num_rows,
        num_cols |-> num_cols, axs |-> axs,
        removed |-> IF drawn.error = None /\ k % 2 # 0 /\ last.error = None
                    THEN <<last.cell>> ELSE <<>>,
        cells |-> drawn.cells,
        series |-> [c \in 1..Len(drawn.cells) |->
                      LET cluster_df == iloc(df.rows, ClusterIndices(labels, c))
                      IN IF sorted THEN SortRows(cluster_df) ELSE cluster_df],
        error |-> IF drawn.error # None THEN drawn.error ELSE last.error]

(* A plot call: the figure it builds, and the exception that ends it.      *)
(* Every plot builds its figure afresh (plt.subplots) from the data and    *)
(* the labels alone; a session is followed up to its first plot.           *)
Plot(fig) ==
    /\ pc = "assigned"
    /\ figure = NoFigure
    /\ figure' = fig
    /\ error' = fig.error
    /\ UNCHANGED <<pc, heap, self, distance_matrix, linkage_matrix, num_clusters, clusters>>

plot_cluster_heatmaps == \E sorted \in BOOLEAN : Plot(HeatmapFigure(self, Data, clusters, sorted))

plot_cluster_treatment_percentage == Plot(PercentageFigure(self, Data, clusters))

bar_cluster_treatment_percentage == Plot(PercentageFigure(self, Data, clusters))

plot_stacked_bar == Plot(PercentageFigure(self, Data, clusters))

-----------------------------------------------------------------------------
(* main, line 380:                                                         *)
(* df_numeriques['cluster'] = pd.Series(clusters).apply('group_' + str(x)) *)
(* The column is added to the frame object itself, which is also the       *)
(* object tca.data refers to.  main attaches the labels right after        *)
(* assign_clusters, before any plot.                                       *)

GroupName(x) == <<"group_", x>>

SetColumn(df, name, values) ==
    [columns |-> Append(df.columns, name),
     rows |-> [i \in 1..Len(df.rows) |-> Append(df.rows[i], values[i])]]

AttachLabels ==
    /\ pc = "assigned"
    /\ figure = NoFigure
    /\ heap' = [heap EXCEPT ![DfRef] =
                  SetColumn(heap[DfRef], "cluster",
                            [i \in 1..Len(clusters) |-> GroupName(clusters[i])])]
    /\ pc' = "attached"
    /\ UNCHANGED <<self, distance_matrix, linkage_matrix, num_clusters, clusters, figure,
                   error>>

-----------------------------------------------------------------------------

Init ==
    /\ pc = "start"
    /\ heap = <<>>
    /\ self = None
    /\ distance_matrix = None
    /\ linkage_matrix = None
    /\ num_clusters = None
    /\ clusters = None
    /\ figure = NoFigure
    /\ error = None

Next ==
    \/ \E df \in SessionFrames : LoadData(df)
    \/ Construct(DfRef, StateMapping(SessionStates), Colors(SessionStates))
    \/ CalculateDistanceMatrix
    \/ Cluster
    \/ \E k \in 0..(MaxN + 1) : AssignClusters(k)
    \/ plot_cluster_heatmaps
    \/ plot_cluster_treatment_percentage
    \/ bar_cluster_treatment_percentage
    \/ plot_stacked_bar
    \/ AttachLabels

(* The analysis session of main(), over every small data frame. *)
Spec == Init /\ [][Next]_vars

(* The same session with the constructor's arguments varied: state         *)
(* mappings of 0..MaxStates states, and every choice of colors.            *)
NextConfig ==
    \/ \E df \in ConfigFrames : LoadData(df)
    \/ \E n \in 0..MaxStates, colors \in ColorChoices :
          Construct(DfRef, StateMapping(n), colors)
    \/ CalculateDistanceMatrix
    \/ Cluster
    \/ \E k \in 0..(MaxN + 1) : AssignClusters(k)
    \/ plot_cluster_heatmaps
    \/ plot_cluster_treatment_percentage
    \/ bar_cluster_treatment_percentage
    \/ plot_stacked_bar
    \/ AttachLabels

SpecConfig == Init /\ [][NextConfig]_vars

-----------------------------------------------------------------------------
(* Properties. *)

(* The object has been constructed. *)
Constructed == pc \notin {"start", "loaded", "construct_failed"}

(* The number of rows of the sequence matrix. *)
N == Len(Data.rows)

(* The number of time columns. *)
T == Len(Data.columns)

(* C1: for 1 <= K <= N, assign_clusters returns one label per leaf 0..N-1  *)
(* (an array of length N), with at most K distinct labels; K = N gives N   *)
(* distinct labels and K = 1 gives one label for all leaves.               *)
C1_PartitionCoversLeaves ==
    (pc = "assigned" /\ num_clusters \in 1..N) =>
        /\ DOMAIN clusters = 1..N
        /\ \A i \in 1..N : clusters[i] \in Nat
        /\ Cardinality(Range(clusters)) <= num_clusters
        /\ (num_clusters = N => Cardinality(Range(clusters)) = N)
        /\ (num_clusters = 1 => Cardinality(Range(clusters)) = 1)

C1_Witness ==
    /\ pc = "assigned"
    /\ N = 4
    /\ num_clusters = 3
    /\ Cardinality(Range(clusters)) = 3
    /\ clusters[1] = clusters[4]

(* C2: assign_clusters with K = 0 or K > N fails with an input error and   *)
(* never returns a label array.                                            *)
C2_OutOfRangeKFails ==
    pc \in {"assigned", "attached"} => num_clusters \in 1..N

SizeOf(Z, n, id) == IF id < n THEN 1 ELSE Z[id - n + 1].size

(* The records and sides of Z where id is a child. *)
UsesOf(Z, id) ==
    {<<m, side>> \in (1..Len(Z)) \X {"left", "right"} :
        (IF side = "left" THEN Z[m].left ELSE Z[m].right) = id}

(* C4: for N >= 2 the merge tree has N-1 records; record m (from 0)        *)
(* creates cluster N+m from two distinct children that are leaves or       *)
(* clusters of earlier records; every id but the last created is a child   *)
(* exactly once; a record's size is the sum of its children's sizes, and   *)
(* the last record has size N.                                             *)
C4_MergeTreeShape ==
    pc = "clustered" =>
        LET Z == linkage_matrix IN
        /\ N >= 2
        /\ Len(Z) = N - 1
        /\ \A m \in 1..Len(Z) :
              /\ Z[m].left # Z[m].right
              /\ Z[m].left \in 0..(N + m - 2)
              /\ Z[m].right \in 0..(N + m - 2)
              /\ Z[m].size = SizeOf(Z, N, Z[m].left) + SizeOf(Z, N, Z[m].right)
        /\ \A id \in 0..(2 * N - 3) : Cardinality(UsesOf(Z, id)) = 1
        /\ UsesOf(Z, 2 * N - 2) = {}
        /\ Z[Len(Z)].size = N

C4_Witness ==
    /\ pc = "clustered"
    /\ N = 4
    /\ \E m \in 1..3 : linkage_matrix[m].left >= N /\ linkage_matrix[m].right >= N
    /\ \E m \in 1..3 : linkage_matrix[m].left > linkage_matrix[m].right

(* The positions where two rows differ. *)
Differing(u, v) == {t \in 1..Len(u) : u[t] # v[t]}

RatEq(a, b) == a[1] * b[2] = b[1] * a[2]

(* C5: the distance matrix has N(N-1)/2 values, the value of the pair      *)
(* i < j at its place in row-major order, equal to (positions where rows   *)
(* i and j differ)/T; it lies in [0,1], is 0 for equal rows, and is the    *)
(* same for the pair taken in the other order.                             *)
C5_HammingCondensed ==
    pc = "distanced" =>
        LET rows == Data.rows
            dm == distance_matrix
        IN /\ Len(dm) = (N * (N - 1)) \div 2
           /\ \A i \in 0..(N - 1) : \A j \in (i + 1)..(N - 1) :
                 LET k == Cardinality({p \in (0..(N - 1)) \X (0..(N - 1)) :
                                  p[1] < p[2] /\ (p[1] < i \/ (p[1] = i /\ p[2] < j))})
                     d == dm[k + 1]
                 IN /\ d[2] > 0
                    /\ RatEq(d, <<Cardinality(Differing(rows[i + 1], rows[j + 1])), T>>)
                    /\ RatLeq(<<0, 1>>, d) /\ RatLeq(d, <<1, 1>>)
                    /\ (rows[i + 1] = rows[j + 1] => d[1] = 0)
                    /\ RatEq(hamming(rows[j + 1], rows[i + 1]), d)

C5_Witness ==
    /\ pc = "distanced"
    /\ N = 4
    /\ T = 2
    /\ distance_matrix = << <<0, 2>>, <<1, 2>>, <<2, 2>>, <<1, 2>>, <<2, 2>>, <<1, 2>> >>

(* C6: the merge distances of the tree cluster returns are non-decreasing  *)
(* from each record to the next.                                           *)
C6_MergeDistancesMonotone ==
    pc = "clustered" =>
        \A m \in 1..(Len(linkage_matrix) - 1) :
            RatLeq(linkage_matrix[m].dist, linkage_matrix[m + 1].dist)

(* The chain found a merge before a strictly closer one, and the tree has  *)
(* three different merge distances.                                        *)
C6_Witness ==
    /\ pc = "clustered"
    /\ N = 4
    /\ LET found == ChainMerges(distance_matrix, N)
       IN \E m \in 1..(Len(found) - 1) : found[m].dist > found[m + 1].dist
    /\ RatLess(linkage_matrix[1].dist, linkage_matrix[2].dist)
    /\ RatLess(linkage_matrix[2].dist, linkage_matrix[3].dist)

(* C7: a TCA object exists only with as many colors as state labels and    *)
(* state codes, the default colors included; a construction that fails     *)
(* raises ValueError and leaves no object.                                 *)
C7_EqualLengthsOrNoObject ==
    /\ Constructed =>
          /\ Len(self.colors) = Len(self.state_label)
          /\ Len(self.state_numeric) = Len(self.state_label)
    /\ pc = "construct_failed" => (error = "ValueError" /\ self = None)

(* The default colors were accepted, and a plot ran on the object. *)
C7_Witness ==
    /\ Constructed
    /\ self.colors = DefaultColors
    /\ Len(self.state_label) = Len(DefaultColors)
    /\ figure.kind = "percentages"

(* The rows (from 1) of the cluster with the given label. *)
Members(cluster_label) == {i \in 1..N : clusters[i] = cluster_label}

(* C8: in the percentage plots, the value of a cluster, a state and a time *)
(* column is 100 * (subjects of the cluster with the state at that time) / *)
(* (subjects of the cluster with the state at any time).                   *)
C8_PercentageOfEverExposed ==
    (pc = "assigned" /\ figure.kind = "percentages") =>
        \A c \in 1..Len(figure.series) :
            \A s \in 1..Len(self.state_numeric) :
                LET code == self.state_numeric[s]
                    ever == {i \in Members(c) : \E t \in 1..T : Data.rows[i][t] = code}
                IN /\ Len(figure.series[c]) = Len(self.state_numeric)
                   /\ \A t \in 1..T :
                         LET at == {i \in Members(c) : Data.rows[i][t] = code}
                             value == figure.series[c][s].values[t]
                         IN /\ value[2] = Cardinality(ever)
                            /\ value[1] = 100 * Cardinality(at)

(* A cluster of two subjects of which one ever has a state: 100 per cent   *)
(* where the cluster size as the denominator would give 50.                *)
C8_Witness ==
    /\ pc = "assigned"
    /\ figure.kind = "percentages"
    /\ figure.error = None
    /\ \E c \in 1..Len(figure.series) : \E s \in 1..Len(self.state_numeric) :
          /\ Cardinality(Members(c)) = 2
          /\ figure.series[c][s].values[T] = <<100, 1>>

(* C9: once the object is constructed, the sequence matrix it holds and    *)
(* its state mapping never change: same columns, same rows, same cells.    *)
C9_InputsNeverMutated ==
    [][Constructed =>
          /\ self' = self
          /\ heap'[self.data].columns = heap[self.data].columns
          /\ heap'[self.data].rows = heap[self.data].rows]_vars

(* C10: in every per-cluster plot of K >= 1 clusters, label l is drawn in  *)
(* cell ((l-1) div num_cols, (l-1) mod num_cols) of the grid of            *)
(* (K+1) div 2 rows and min(2, K) columns, the cells are distinct, and the *)
(* cell removed when K is odd is none of them.                             *)
C10_ClusterCells ==
    (pc = "assigned" /\ figure.kind # "none") =>
        LET k == NumClusters(clusters)
            num_rows == (k + 1) \div 2
            num_cols == IF k < 2 THEN k ELSE 2
        IN /\ k >= 1
           /\ figure.error = None
           /\ Len(figure.cells) = k
           /\ \A l \in 1..k :
                 /\ figure.cells[l] = <<(l - 1) \div num_cols, (l - 1) % num_cols>>
                 /\ figure.cells[l][1] \in 0..(num_rows - 1)
                 /\ figure.cells[l][2] \in 0..(num_cols - 1)
           /\ \A l1, l2 \in 1..k : l1 # l2 => figure.cells[l1] # figure.cells[l2]
           /\ (k % 2 # 0 => figure.removed = << <<num_rows - 1, num_cols - 1>> >>)
           /\ \A l \in 1..k : figure.cells[l] \notin Range(figure.removed)

====
